---------------------------- MODULE Spec2Model ----------------------------
(***************************************************************************)
(* A model of the deploy-rs on-host agent (src/src/bin/activate.rs) and of *)
(* the canary path derivation (src/src/lib.rs).                            *)
(*                                                                         *)
(* Strings are sequences of one-character strings, so that searching,      *)
(* slicing, formatting and path joining are computed as the code computes  *)
(* them.  Option<T> is a sequence of length at most one: None is << >>,    *)
(* Some(x) is <<x>>.  A Result is a record [tag, val] with tag "ok",       *)
(* "err" or "panic".                                                       *)
(***************************************************************************)
EXTENDS Integers, Sequences, FiniteSets, TLC

VARIABLES
    opts,         \* the parsed command line of the running invocation
    pc,           \* position of the main task
    profile,      \* the resolved profile path
    pending,      \* the error the caller of deactivate surfaces when it returns Ok
    result,       \* Result of the subcommand, as matched at the end of main
    exitCode,     \* how the process ended
    cmds,         \* external commands spawned so far, in order
    inflight,     \* the external command currently running, as an Option
    canary,       \* whether the canary file exists on disk
    tempDir,      \* whether the temp directory exists on disk
    watch,        \* the filesystem watch the notification context holds
    events,       \* file system notifications not yet handed to the callback
    chan,         \* the mpsc::channel(1) between the callback and danger_zone
    senderAlive,  \* whether the callback (the only Sender) still exists
    genOut,       \* stdout of the list-generations command
    waited,       \* whether danger_zone was entered, with the timeout it used
    lockPath,     \* the canary path computed by make_lock_path
    canaryAtStart,\* whether the canary existed when the invocation started
    fsLog,        \* file system and watch calls the process made, in order
    removalSeen,  \* whether the canary was removed while the removal watch was on
    removedUnwatched, \* whether the canary was removed between its creation and the watch
    canaryOrigin, \* where the canary on disk comes from: a session, one that timed out
    hups,         \* hangup signals delivered so far
    invocation,   \* number of the running invocation
    fin,          \* input of the pure function under check
    fout          \* output of the pure function under check

vars == <<opts, pc, profile, pending, result, exitCode, cmds, inflight,
          canary, tempDir, watch, events, chan, senderAlive, genOut,
          waited, lockPath, canaryAtStart, fsLog, removalSeen, removedUnwatched, canaryOrigin, hups, invocation, fin, fout>>

---------------------------------------------------------------------------
(* Options and results *)

None == << >>
Some(x) == <<x>>
UnwrapOr(o, d) == IF o = None THEN d ELSE o[1]

Ok(v) == [tag |-> "ok", val |-> v]
Err(e) == [tag |-> "err", val |-> e]
Panic == [tag |-> "panic", val |-> << >>]
NotCalled == [tag |-> "not-called", val |-> << >>]

---------------------------------------------------------------------------
(* String literals of the source *)

StorePrefix == <<"/","n","i","x","/","s","t","o","r","e","/">>
CanaryPrefix == <<"d","e","p","l","o","y","-","r","s","-","c","a","n","a","r","y","-">>
DefaultNixStateDir == <<"/","n","i","x","/","v","a","r","/","n","i","x">>
RootUser == <<"r","o","o","t">>
SystemName == <<"s","y","s","t","e","m">>
ProfilesSystem == <<"/","p","r","o","f","i","l","e","s","/","s","y","s","t","e","m">>
ProfilesPerUserRoot == <<"/","p","r","o","f","i","l","e","s","/","p","e","r","-","u","s","e","r","/","r","o","o","t","/">>
ProfilesPerUser == <<"/","p","r","o","f","i","l","e","s","/","p","e","r","-","u","s","e","r","/">>
LocalState == <<"/",".","l","o","c","a","l","/","s","t","a","t","e">>
NixProfiles == <<"/","n","i","x","/","p","r","o","f","i","l","e","s","/">>
ActivateScript == <<"/","d","e","p","l","o","y","-","r","s","-","a","c","t","i","v","a","t","e">>
Slash == <<"/">>
NixEnv == <<"n","i","x","-","e","n","v">>
ArgP == <<"-","p">>
ArgSet == <<"-","-","s","e","t">>
ArgRollback == <<"-","-","r","o","l","l","b","a","c","k">>
ArgListGenerations == <<"-","-","l","i","s","t","-","g","e","n","e","r","a","t","i","o","n","s">>
ArgDeleteGenerations == <<"-","-","d","e","l","e","t","e","-","g","e","n","e","r","a","t","i","o","n","s">>

---------------------------------------------------------------------------
(* String and path primitives of the Rust standard library, as used *)

\* str::find(char): the 0-based index of the first occurrence, as an Option
FindChar(s, c) ==
    IF \E i \in 1..Len(s) : s[i] = c
    THEN Some((CHOOSE i \in 1..Len(s) :
                  s[i] = c /\ \A j \in 1..(i-1) : s[j] # c) - 1)
    ELSE None

\* str::rfind(char): the 0-based index of the last occurrence, as an Option
RFindChar(s, c) ==
    IF \E i \in 1..Len(s) : s[i] = c
    THEN Some((CHOOSE i \in 1..Len(s) :
                  s[i] = c /\ \A j \in (i+1)..Len(s) : s[j] # c) - 1)
    ELSE None

\* &s[a..b] with 0-based a and b: panics when a > b or b > len
Slice(s, a, b) ==
    IF a > b \/ b > Len(s) THEN Panic ELSE Ok(SubSeq(s, a + 1, b))

\* Path::join(base, p) for Unix paths: an absolute p replaces base, a
\* separator is added only when base is non-empty and does not end with one
PathJoin(base, p) ==
    IF p # << >> /\ p[1] = "/" THEN p
    ELSE IF base # << >> /\ base[Len(base)] # "/" THEN base \o Slash \o p
    ELSE base \o p

---------------------------------------------------------------------------
(* lib.rs: the canary path *)

\* a variant that cuts the hash at the last '-' instead of the first
make_lock_path_last_dash(temp_path, closure) ==
    LET end == UnwrapOr(RFindChar(closure, "-"), Len(closure))
        lock_hash == Slice(closure, Len(StorePrefix), end)
    IN  IF lock_hash.tag = "panic" THEN Panic
        ELSE Ok(PathJoin(temp_path, CanaryPrefix \o lock_hash.val))

make_lock_path(temp_path, closure) ==
    LET end == UnwrapOr(FindChar(closure, "-"), Len(closure))
        lock_hash == Slice(closure, Len(StorePrefix), end)
    IN  IF lock_hash.tag = "panic" THEN Panic
        ELSE Ok(PathJoin(temp_path, CanaryPrefix \o lock_hash.val))

---------------------------------------------------------------------------
(* activate.rs: the Profile Path Resolver *)

\* the process environment read by get_profile_path: the two variables, the
\* home directory lookup, and the directories that exist on disk
PathExists(e, p) == p \in e.dirs

\* a variant that sends root's "system" profile to per-user/root like any other
get_profile_path_no_system(profile_path, profile_user, profile_name, e) ==
    IF profile_path # None /\ profile_user = None /\ profile_name = None
    THEN Ok(profile_path[1])
    ELSE IF profile_path = None /\ profile_user # None /\ profile_name # None
    THEN LET nix_state_dir == UnwrapOr(e.NIX_STATE_DIR, DefaultNixStateDir)
             user == profile_user[1]
             name == profile_name[1]
             old_user_profiles_dir == nix_state_dir \o ProfilesPerUser \o user
         IN  IF user = RootUser
             THEN Ok(nix_state_dir \o ProfilesPerUserRoot \o name)
             ELSE IF PathExists(e, old_user_profiles_dir)
             THEN Ok(old_user_profiles_dir \o Slash \o name)
             ELSE IF e.XDG_STATE_HOME # None
             THEN Ok(e.XDG_STATE_HOME[1] \o NixProfiles \o name)
             ELSE IF e.HOME # None
             THEN Ok(e.HOME[1] \o LocalState \o NixProfiles \o name)
             ELSE Err(<<"NoUserHome">>)
    ELSE Panic

get_profile_path(profile_path, profile_user, profile_name, e) ==
    IF profile_path # None /\ profile_user = None /\ profile_name = None
    THEN Ok(profile_path[1])
    ELSE IF profile_path = None /\ profile_user # None /\ profile_name # None
    THEN LET nix_state_dir == UnwrapOr(e.NIX_STATE_DIR, DefaultNixStateDir)
             user == profile_user[1]
             name == profile_name[1]
             old_user_profiles_dir == nix_state_dir \o ProfilesPerUser \o user
         IN  IF user = RootUser
             THEN IF name = SystemName
                  THEN Ok(nix_state_dir \o ProfilesSystem)
                  ELSE Ok(nix_state_dir \o ProfilesPerUserRoot \o name)
             ELSE IF PathExists(e, old_user_profiles_dir)
             THEN Ok(old_user_profiles_dir \o Slash \o name)
             ELSE IF e.XDG_STATE_HOME # None
             THEN Ok(e.XDG_STATE_HOME[1] \o NixProfiles \o name)
             ELSE IF e.HOME # None
             THEN Ok(e.HOME[1] \o LocalState \o NixProfiles \o name)
             ELSE Err(<<"NoUserHome">>)
    ELSE Panic

---------------------------------------------------------------------------
(* Bounds and the inputs drawn from them *)

MaxTail == 3          \* length of the part of a closure after the store prefix
MaxOut == 3           \* length of the list-generations output
MaxEvents == 2        \* notifications queued for the watch callback
MaxHup == 1           \* hangup signals delivered to one process
MaxInvocations == 2   \* invocations run one after the other on the host

RECURSIVE SeqsUpTo(_, _)
SeqsUpTo(alphabet, n) ==
    IF n = 0 THEN {<< >>}
    ELSE LET shorter == SeqsUpTo(alphabet, n - 1)
         IN  shorter \cup {s \o <<c>> : s \in shorter, c \in alphabet}

TempPath == <<"/","t">>
ExplicitProfile == <<"/","p">>
GoodClosure == StorePrefix \o <<"a","-","b">>
ShortClosure == <<".","/","r">>

\* the environment of the process: nothing set and no home directory, or
\* everything set
NoEnv == [NIX_STATE_DIR |-> None, XDG_STATE_HOME |-> None, HOME |-> None, dirs |-> {}]

ConfirmTimeout == 30            \* the --confirm-timeout / --activation-timeout given
DefaultActivationTimeout == 240 \* activation_timeout.unwrap_or(240)

\* ways of naming the profile on the command line, with the environment
ProfileArgs ==
    { [profile_path |-> Some(ExplicitProfile), profile_user |-> None,
       profile_name |-> None, env |-> NoEnv],
      [profile_path |-> None, profile_user |-> Some(<<"a","l">>),
       profile_name |-> Some(<<"f">>), env |-> NoEnv],
      [profile_path |-> Some(ExplicitProfile), profile_user |-> Some(RootUser),
       profile_name |-> Some(SystemName), env |-> NoEnv] }

\* SubCmd::Activate, SubCmd::Wait, SubCmd::Revoke as one record shape
ActivateOpts ==
    { [subcmd |-> "activate", closure |-> c, pargs |-> a,
       confirm_timeout |-> ConfirmTimeout, magic_rollback |-> m,
       auto_rollback |-> r, dry_activate |-> d, boot |-> b,
       temp_path |-> TempPath, activation_timeout |-> None] :
         c \in {GoodClosure, ShortClosure}, a \in ProfileArgs,
         m \in BOOLEAN, r \in BOOLEAN, d \in BOOLEAN, b \in BOOLEAN }
WaitOpts ==
    { [subcmd |-> "wait", closure |-> c, pargs |-> CHOOSE a \in ProfileArgs : a.profile_user = None,
       confirm_timeout |-> ConfirmTimeout, magic_rollback |-> FALSE,
       auto_rollback |-> FALSE, dry_activate |-> FALSE, boot |-> FALSE,
       temp_path |-> TempPath, activation_timeout |-> t] :
         c \in {GoodClosure, ShortClosure}, t \in {None, Some(ConfirmTimeout)} }
RevokeOpts ==
    { [subcmd |-> "revoke", closure |-> << >>, pargs |-> a,
       confirm_timeout |-> ConfirmTimeout, magic_rollback |-> FALSE,
       auto_rollback |-> FALSE, dry_activate |-> FALSE, boot |-> FALSE,
       temp_path |-> TempPath, activation_timeout |-> None] :
         a \in ProfileArgs }
AllOpts == ActivateOpts \cup WaitOpts \cup RevokeOpts

\* exit statuses of a child: Some(0), Some(nonzero), None (killed by a signal)
ExitStatuses == {"0", "1", "signal"}

\* stdout of list-generations: text of lines, blanks and digits
GenAlphabet == {"1", " ", "\n"}
GenOutputs == SeqsUpTo(GenAlphabet, MaxOut)

---------------------------------------------------------------------------
(* The decisions of activate and main *)

\* status.code() matched against Some(0)
ExitOk_any_status(code) == TRUE
ExitOk(code) == code = "0"

\* line 381: the profile is set unless this is a dry run
SetsProfile_always(o) == TRUE
SetsProfile(o) == ~o.dry_activate

\* lines 394 and 421: rollback after a set-profile exit or a hook spawn failure
AutoRollback_never(o) == FALSE
AutoRollback(o) == o.auto_rollback /\ ~o.dry_activate

\* line 390: a set-profile that cannot be spawned is returned by `?`, with
\* no rollback
SetProfileSpawnRollback_when_auto(o) == o.auto_rollback
SetProfileSpawnRollback(o) == FALSE

\* line 428: the hook's exit status is looked at unless this is a dry run
ChecksHookExit_always(o) == TRUE
ChecksHookExit(o) == ~o.dry_activate

\* line 432: rollback after a bad hook exit
HookExitRollback_never(o) == FALSE
HookExitRollback_always(o) == TRUE
HookExitRollback(o) == o.auto_rollback

\* line 443: the confirmation window is opened
OpensConfirmation_ignoring_boot(o) == o.magic_rollback
OpensConfirmation_always(o) == ~o.boot
OpensConfirmation(o) == o.magic_rollback /\ ~o.boot

\* lines 445-446: a failed confirmation always rolls back
ConfirmationRollback_when_auto(o) == o.auto_rollback
ConfirmationRollback(o) == TRUE

\* lines 404-408
activation_location_always_profile(o, profile_path) == profile_path
activation_location(o, profile_path) ==
    IF o.dry_activate THEN o.closure ELSE profile_path

\* lines 577-583: Ok falls through to the end of main, Err is exit(1)
ExitCodeFor(r) == IF r.tag = "ok" THEN "0" ELSE "1"

\* the external commands, as logged in cmds
UnsetEnv == [PROFILE |-> None, DRY_ACTIVATE |-> None, BOOT |-> None]
Cmd(name, program, args, cwd, env, spawned) ==
    [name |-> name, program |-> program, args |-> args, cwd |-> cwd, env |-> env,
     status |-> IF spawned THEN "running" ELSE "spawn-failed"]
\* the child spawned last has ended with this exit status
Completed_left_running(log, code) == log
Completed(log, code) == [log EXCEPT ![Len(log)].status = code]
Flag(b) == IF b THEN Some(<<"1">>) ELSE Some(<<"0">>)

---------------------------------------------------------------------------
(* Parsing the generation list (deactivate, lines 159-170) *)

Max(S) == CHOOSE x \in S : \A y \in S : y <= x
Min(S) == CHOOSE x \in S : \A y \in S : x <= y

InvalidUtf8 == <<"\\xFF">>

\* String::from_utf8
from_utf8(bytes) ==
    IF \E i \in 1..Len(bytes) : bytes[i] = "\\xFF"
    THEN Err(<<"DecodeListGenUtf8">>) ELSE Ok(bytes)

\* str::lines().last(): lines end at "\n"; a final "\n" starts no further line
LastLine(s) ==
    IF s = << >> THEN None
    ELSE LET t == IF s[Len(s)] = "\n" THEN SubSeq(s, 1, Len(s) - 1) ELSE s
             breaks == {i \in 1..Len(t) : t[i] = "\n"}
             k == IF breaks = {} THEN 0 ELSE Max(breaks)
         IN  Some(SubSeq(t, k + 1, Len(t)))

IsWhitespace(c) == c \in {" ", "\n"}

\* str::split_whitespace().next()
FirstToken(line) ==
    LET inked == {i \in 1..Len(line) : ~IsWhitespace(line[i])}
    IN  IF inked = {} THEN None
        ELSE LET a == Min(inked)
                 after == {i \in a..Len(line) : IsWhitespace(line[i])}
                 b == IF after = {} THEN Len(line) ELSE Min(after) - 1
             IN  Some(SubSeq(line, a, b))

\* lines 162-170: Some(id), or None where one of the two expect() calls panics
last_generation_id_of_first_line(generations_list) ==
    LET ends == {i \in 1..Len(generations_list) : generations_list[i] = "\n"}
        first == IF ends = {} THEN generations_list
                 ELSE SubSeq(generations_list, 1, Min(ends) - 1)
    IN  IF generations_list = << >> THEN None ELSE FirstToken(first)
last_generation_id(generations_list) ==
    LET last_generation_line == LastLine(generations_list)
    IN  IF last_generation_line = None THEN None
        ELSE FirstToken(last_generation_line[1])

---------------------------------------------------------------------------
(* The process: main *)

NoResult == NotCalled

\* the watcher and both channel ends go out of scope
DropWatcher ==
    /\ watch' = "none"
    /\ events' = << >>
    /\ chan' = << >>
    /\ senderAlive' = FALSE

\* a panic on the main task ends the process with status 101
PanicExit ==
    /\ pc' = "exited"
    /\ result' = Panic
    /\ exitCode' = "101"

\* the state of a process that has just been started with command line o
Started(o) ==
    /\ opts = o
    /\ pc = "main"
    /\ profile = << >>
    /\ pending = NoResult
    /\ result = NoResult
    /\ exitCode = "running"
    /\ cmds = << >>
    /\ inflight = None
    /\ watch = "none"
    /\ events = << >>
    /\ chan = << >>
    /\ senderAlive = FALSE
    /\ genOut = None
    /\ waited = None
    /\ lockPath = NotCalled
    /\ fsLog = << >>
    /\ removalSeen = FALSE
    /\ removedUnwatched = FALSE
    /\ hups = 0

Init ==
    /\ \E o \in AllOpts : Started(o)
    /\ tempDir \in BOOLEAN
    /\ canary \in BOOLEAN
    /\ canary => tempDir
    /\ canaryAtStart = canary
    /\ canaryOrigin = "none"
    /\ invocation = 1
    /\ fin = << >>
    /\ fout = NotCalled

\* lines 516-533: the hangup listener, the command line, the logger
main_setup ==
    /\ pc = "main"
    /\ \E ok \in BOOLEAN :
          IF ok THEN /\ pc' = "dispatch"
                     /\ UNCHANGED <<result, exitCode>>
          ELSE /\ pc' = "exited"
               /\ result' = Err(<<"Setup">>)
               /\ exitCode' = "1"
    /\ UNCHANGED <<opts, profile, pending, cmds, inflight, canary, tempDir,
                   watch, events, chan, senderAlive, genOut, waited, lockPath,
                   canaryAtStart, fsLog, removalSeen, removedUnwatched, canaryOrigin, hups, invocation, fin, fout>>

\* lines 535-575: the subcommand is chosen and the profile path resolved
main_dispatch ==
    /\ pc = "dispatch"
    /\ IF opts.subcmd = "wait"
       THEN /\ pc' = "wait"
            /\ UNCHANGED <<profile, result, exitCode>>
       ELSE LET r == get_profile_path(opts.pargs.profile_path, opts.pargs.profile_user,
                                      opts.pargs.profile_name, opts.pargs.env)
            IN  IF r.tag = "ok"
                THEN /\ profile' = r.val
                     /\ pc' = IF opts.subcmd = "activate" THEN "activate"
                              ELSE "rollback_spawn"
                     /\ UNCHANGED <<result, exitCode>>
                ELSE IF r.tag = "err"
                THEN /\ pc' = "exited"
                     /\ result' = r
                     /\ exitCode' = "1"
                     /\ UNCHANGED profile
                ELSE /\ PanicExit
                     /\ UNCHANGED profile
    /\ UNCHANGED <<opts, pending, cmds, inflight, canary, tempDir,
                   watch, events, chan, senderAlive, genOut, waited, lockPath,
                   canaryAtStart, fsLog, removalSeen, removedUnwatched, canaryOrigin, hups, invocation, fin, fout>>

\* lines 577-585: the result is matched and the process ends
main_exit ==
    /\ pc = "main_exit"
    /\ pc' = "exited"
    /\ exitCode' = ExitCodeFor(result)
    /\ UNCHANGED <<opts, profile, pending, result, cmds, inflight, canary, tempDir,
                   watch, events, chan, senderAlive, genOut, waited, lockPath,
                   canaryAtStart, fsLog, removalSeen, removedUnwatched, canaryOrigin, hups, invocation, fin, fout>>

---------------------------------------------------------------------------
(* activate: set-profile and the activation hook *)

\* lines 381-390: nix-env -p <profile> --set <closure> is spawned
activate_set_profile ==
    /\ pc = "activate"
    /\ IF ~SetsProfile(opts)
       THEN /\ pc' = "hook_spawn"
            /\ UNCHANGED <<cmds, inflight, pending, result>>
       ELSE \E ok \in BOOLEAN :
              /\ cmds' = Append(cmds, Cmd("set-profile", NixEnv,
                                         <<ArgP, profile, ArgSet, opts.closure>>,
                                         None, UnsetEnv, ok))
              /\ IF ok THEN /\ inflight' = Some("set-profile")
                            /\ pc' = "set_profile_wait"
                            /\ UNCHANGED <<pending, result>>
                 ELSE IF SetProfileSpawnRollback(opts)
                 THEN /\ pending' = Err(<<"SetProfile">>)
                      /\ pc' = "rollback_spawn"
                      /\ UNCHANGED <<inflight, result>>
                 ELSE /\ result' = Err(<<"SetProfile">>)
                      /\ pc' = "main_exit"
                      /\ UNCHANGED <<inflight, pending>>
    /\ UNCHANGED <<opts, profile, exitCode, canary, tempDir,
                   watch, events, chan, senderAlive, genOut, waited, lockPath,
                   canaryAtStart, fsLog, removalSeen, removedUnwatched, canaryOrigin, hups, invocation, fin, fout>>

\* lines 391-399: the exit status of set-profile
set_profile_exit ==
    /\ pc = "set_profile_wait"
    /\ inflight' = None
    /\ \E code \in ExitStatuses :
          /\ cmds' = Completed(cmds, code)
          /\ IF ExitOk(code)
             THEN /\ pc' = "hook_spawn"
                  /\ UNCHANGED <<pending, result>>
             ELSE IF AutoRollback(opts)
             THEN /\ pending' = Err(<<"SetProfileExit", code>>)
                  /\ pc' = "rollback_spawn"
                  /\ UNCHANGED result
             ELSE /\ result' = Err(<<"SetProfileExit", code>>)
                  /\ pc' = "main_exit"
                  /\ UNCHANGED pending
    /\ UNCHANGED <<opts, profile, exitCode, canary, tempDir,
                   watch, events, chan, senderAlive, genOut, waited, lockPath,
                   canaryAtStart, fsLog, removalSeen, removedUnwatched, canaryOrigin, hups, invocation, fin, fout>>

\* lines 404-426: <location>/deploy-rs-activate is spawned
hook_spawn ==
    /\ pc = "hook_spawn"
    /\ LET loc == activation_location(opts, profile)
           env == [PROFILE |-> Some(loc), DRY_ACTIVATE |-> Flag(opts.dry_activate),
                   BOOT |-> Flag(opts.boot)]
       IN  \E ok \in BOOLEAN :
              /\ cmds' = Append(cmds, Cmd("activate-hook", loc \o ActivateScript, << >>,
                                         Some(loc), env, ok))
              /\ IF ok THEN /\ inflight' = Some("activate-hook")
                            /\ pc' = "hook_wait"
                            /\ UNCHANGED <<pending, result>>
                 ELSE IF AutoRollback(opts)
                 THEN /\ pending' = Err(<<"RunActivate">>)
                      /\ pc' = "rollback_spawn"
                      /\ UNCHANGED <<inflight, result>>
                 ELSE /\ result' = Err(<<"RunActivate">>)
                      /\ pc' = "main_exit"
                      /\ UNCHANGED <<inflight, pending>>
    /\ UNCHANGED <<opts, profile, exitCode, canary, tempDir,
                   watch, events, chan, senderAlive, genOut, waited, lockPath,
                   canaryAtStart, fsLog, removalSeen, removedUnwatched, canaryOrigin, hups, invocation, fin, fout>>

\* lines 428-452: the exit status of the hook and what follows it
hook_exit ==
    /\ pc = "hook_wait"
    /\ inflight' = None
    /\ \E code \in ExitStatuses :
          /\ cmds' = Completed(cmds, code)
          /\ IF ~ChecksHookExit(opts)
             THEN /\ result' = Ok(<< >>)
                  /\ pc' = "main_exit"
                  /\ UNCHANGED pending
             ELSE IF ExitOk(code)
             THEN IF OpensConfirmation(opts)
                  THEN /\ pc' = "confirm"
                       /\ UNCHANGED <<pending, result>>
                  ELSE /\ result' = Ok(<< >>)
                       /\ pc' = "main_exit"
                       /\ UNCHANGED pending
             ELSE IF HookExitRollback(opts)
             THEN /\ pending' = Err(<<"RunActivateExit", code>>)
                  /\ pc' = "rollback_spawn"
                  /\ UNCHANGED result
             ELSE /\ result' = Err(<<"RunActivateExit", code>>)
                  /\ pc' = "main_exit"
                  /\ UNCHANGED pending
    /\ UNCHANGED <<opts, profile, exitCode, canary, tempDir,
                   watch, events, chan, senderAlive, genOut, waited, lockPath,
                   canaryAtStart, fsLog, removalSeen, removedUnwatched, canaryOrigin, hups, invocation, fin, fout>>

---------------------------------------------------------------------------
(* deactivate: the Rollback Executor *)

\* deactivate(..).await? in activate (lines 395, 422, 433, 446) and in revoke
\* (lines 456-457): an Err is returned at once, wrapped as Deactivate by
\* activate's From impl (line 364); after an Ok the caller returns the
\* error it was handling, and revoke returns Ok
DeactivateReturns_retrying(r) ==
    IF r.tag = "err"
    THEN /\ pc' = "rollback_spawn"
         /\ UNCHANGED result
    ELSE /\ pc' = "main_exit"
         /\ result' = IF opts.subcmd = "revoke" THEN Ok(<< >>) ELSE pending
DeactivateReturns(r) ==
    /\ pc' = "main_exit"
    /\ result' = IF r.tag = "ok"
                 THEN (IF opts.subcmd = "revoke" THEN Ok(<< >>) ELSE pending)
                 ELSE (IF opts.subcmd = "revoke" THEN r
                       ELSE Err(<<"Deactivate">> \o r.val))

\* lines 131-137: nix-env -p <profile> --rollback is spawned
rollback_spawn ==
    /\ pc = "rollback_spawn"
    /\ \E ok \in BOOLEAN :
          /\ cmds' = Append(cmds, Cmd("rollback", NixEnv, <<ArgP, profile, ArgRollback>>,
                                     None, UnsetEnv, ok))
          /\ IF ok THEN /\ inflight' = Some("rollback")
                        /\ pc' = "rollback_wait"
                        /\ UNCHANGED result
             ELSE /\ DeactivateReturns(Err(<<"Rollback">>))
                  /\ UNCHANGED inflight
    /\ UNCHANGED <<opts, profile, pending, exitCode, canary, tempDir,
                   watch, events, chan, senderAlive, genOut, waited, lockPath,
                   canaryAtStart, fsLog, removalSeen, removedUnwatched, canaryOrigin, hups, invocation, fin, fout>>

\* lines 139-142
rollback_exit ==
    /\ pc = "rollback_wait"
    /\ inflight' = None
    /\ \E code \in ExitStatuses :
          /\ cmds' = Completed(cmds, code)
          /\ IF ExitOk(code) THEN /\ pc' = "listgen_spawn"
                                  /\ UNCHANGED result
             ELSE DeactivateReturns(Err(<<"RollbackExit", code>>))
    /\ UNCHANGED <<opts, profile, pending, exitCode, canary, tempDir,
                   watch, events, chan, senderAlive, genOut, waited, lockPath,
                   canaryAtStart, fsLog, removalSeen, removedUnwatched, canaryOrigin, hups, invocation, fin, fout>>

\* lines 146-152: nix-env -p <profile> --list-generations is spawned
listgen_spawn ==
    /\ pc = "listgen_spawn"
    /\ \E ok \in BOOLEAN :
          /\ cmds' = Append(cmds, Cmd("list-generations", NixEnv,
                                     <<ArgP, profile, ArgListGenerations>>,
                                     None, UnsetEnv, ok))
          /\ IF ok THEN /\ inflight' = Some("list-generations")
                        /\ pc' = "listgen_wait"
                        /\ UNCHANGED result
             ELSE /\ DeactivateReturns(Err(<<"ListGen">>))
                  /\ UNCHANGED inflight
    /\ UNCHANGED <<opts, profile, pending, exitCode, canary, tempDir,
                   watch, events, chan, senderAlive, genOut, waited, lockPath,
                   canaryAtStart, fsLog, removalSeen, removedUnwatched, canaryOrigin, hups, invocation, fin, fout>>

\* lines 154-170: the exit status, the decoding of stdout, the last
\* generation's id
listgen_exit ==
    /\ pc = "listgen_wait"
    /\ inflight' = None
    /\ \E code \in ExitStatuses :
          /\ cmds' = Completed(cmds, code)
          /\ IF ~ExitOk(code)
             THEN /\ DeactivateReturns(Err(<<"ListGenExit", code>>))
                  /\ UNCHANGED <<genOut, exitCode>>
             ELSE \E stdout \in GenOutputs \cup {InvalidUtf8} :
                    LET generations_list == from_utf8(stdout)
                    IN  IF generations_list.tag = "err"
                        THEN /\ DeactivateReturns(generations_list)
                             /\ UNCHANGED <<genOut, exitCode>>
                        ELSE IF last_generation_id(generations_list.val) = None
                        THEN /\ PanicExit
                             /\ genOut' = Some(generations_list.val)
                        ELSE /\ genOut' = Some(generations_list.val)
                             /\ pc' = "delete_spawn"
                             /\ UNCHANGED <<result, exitCode>>
    /\ UNCHANGED <<opts, profile, pending, canary, tempDir,
                   watch, events, chan, senderAlive, waited, lockPath,
                   canaryAtStart, fsLog, removalSeen, removedUnwatched, canaryOrigin, hups, invocation, fin, fout>>

\* lines 172-182: nix-env -p <profile> --delete-generations <id> is spawned
delete_spawn ==
    /\ pc = "delete_spawn"
    /\ genOut' = None
    /\ LET last_generation_id_ == last_generation_id(genOut[1])[1]
       IN  \E ok \in BOOLEAN :
              /\ cmds' = Append(cmds, Cmd("delete-generations", NixEnv,
                                         <<ArgP, profile, ArgDeleteGenerations,
                                           last_generation_id_>>,
                                         None, UnsetEnv, ok))
              /\ IF ok THEN /\ inflight' = Some("delete-generations")
                            /\ pc' = "delete_wait"
                            /\ UNCHANGED result
                 ELSE /\ DeactivateReturns(Err(<<"DeleteGen">>))
                      /\ UNCHANGED inflight
    /\ UNCHANGED <<opts, profile, pending, exitCode, canary, tempDir,
                   watch, events, chan, senderAlive, waited, lockPath,
                   canaryAtStart, fsLog, removalSeen, removedUnwatched, canaryOrigin, hups, invocation, fin, fout>>

\* lines 184-187
delete_exit ==
    /\ pc = "delete_wait"
    /\ inflight' = None
    /\ \E code \in ExitStatuses :
          /\ cmds' = Completed(cmds, code)
          /\ IF ExitOk(code) THEN /\ pc' = "reactivate_spawn"
                                  /\ UNCHANGED result
             ELSE DeactivateReturns(Err(<<"DeleteGenExit", code>>))
    /\ UNCHANGED <<opts, profile, pending, exitCode, canary, tempDir,
                   watch, events, chan, senderAlive, genOut, waited, lockPath,
                   canaryAtStart, fsLog, removalSeen, removedUnwatched, canaryOrigin, hups, invocation, fin, fout>>

\* lines 191-196: <profile>/deploy-rs-activate is spawned with PROFILE only
reactivate_spawn ==
    /\ pc = "reactivate_spawn"
    /\ LET env == [PROFILE |-> Some(profile), DRY_ACTIVATE |-> None, BOOT |-> None]
       IN  \E ok \in BOOLEAN :
              /\ cmds' = Append(cmds, Cmd("re-activate", profile \o ActivateScript, << >>,
                                         Some(profile), env, ok))
              /\ IF ok THEN /\ inflight' = Some("re-activate")
                            /\ pc' = "reactivate_wait"
                            /\ UNCHANGED result
                 ELSE /\ DeactivateReturns(Err(<<"Reactivate">>))
                      /\ UNCHANGED inflight
    /\ UNCHANGED <<opts, profile, pending, exitCode, canary, tempDir,
                   watch, events, chan, senderAlive, genOut, waited, lockPath,
                   canaryAtStart, fsLog, removalSeen, removedUnwatched, canaryOrigin, hups, invocation, fin, fout>>

\* lines 198-203
reactivate_exit ==
    /\ pc = "reactivate_wait"
    /\ inflight' = None
    /\ \E code \in ExitStatuses :
          /\ cmds' = Completed(cmds, code)
          /\ IF ExitOk(code) THEN DeactivateReturns(Ok(<< >>))
             ELSE DeactivateReturns(Err(<<"ReactivateExit", code>>))
    /\ UNCHANGED <<opts, profile, pending, exitCode, canary, tempDir,
                   watch, events, chan, senderAlive, genOut, waited, lockPath,
                   canaryAtStart, fsLog, removalSeen, removedUnwatched, canaryOrigin, hups, invocation, fin, fout>>

---------------------------------------------------------------------------
(* activation_confirmation and danger_zone: the Confirmation Watcher *)

FsCall(op, ok) == [op |-> op, ok |-> ok]

\* lines 445-448: activation_confirmation returned Err(e)
ConfirmationFails(e) ==
    IF ConfirmationRollback(opts)
    THEN /\ pending' = Err(<<"ActivationConfirmation">> \o e)
         /\ pc' = "rollback_spawn"
         /\ UNCHANGED result
    ELSE /\ result' = Err(<<"ActivationConfirmation">> \o e)
         /\ pc' = "main_exit"
         /\ UNCHANGED pending

\* lines 286 and 336: Watcher::watch fails on a path that does not exist, and
\* may fail on one that does
WatchOutcomes_missing_path_ok(exists) == BOOLEAN
WatchOutcomes(exists) == IF exists THEN BOOLEAN ELSE {FALSE}

\* lines 247-255: the canary path, and create_dir_all on its parent
confirm_create_dir ==
    /\ pc = "confirm"
    /\ LET lock_path == make_lock_path(opts.temp_path, opts.closure)
       IN  IF lock_path.tag = "panic"
           THEN /\ PanicExit
                /\ UNCHANGED <<pending, lockPath, tempDir, fsLog>>
           ELSE /\ lockPath' = lock_path
                /\ \E ok \in BOOLEAN :
                      /\ fsLog' = Append(fsLog, FsCall("create_dir_all", ok))
                      /\ IF ok THEN /\ tempDir' = TRUE
                                    /\ pc' = "confirm_create_file"
                                    /\ UNCHANGED <<pending, result>>
                         ELSE /\ ConfirmationFails(<<"CreateConfirmDir">>)
                              /\ UNCHANGED tempDir
                /\ UNCHANGED exitCode
    /\ UNCHANGED <<opts, profile, cmds, inflight, canary,
                   watch, events, chan, senderAlive, genOut, waited,
                   canaryAtStart, removalSeen, removedUnwatched, canaryOrigin, hups, invocation, fin, fout>>

\* lines 259-261: File::create creates the canary or truncates the one there
CreateOutcomes_exclusive(dirExists, fileExists) ==
    IF dirExists /\ ~fileExists THEN BOOLEAN ELSE {FALSE}
CreateOutcomes(dirExists, fileExists) ==
    IF dirExists THEN BOOLEAN ELSE {FALSE}

confirm_create_file ==
    /\ pc = "confirm_create_file"
    /\ \E ok \in CreateOutcomes(tempDir, canary) :
          /\ fsLog' = Append(fsLog, FsCall("File::create", ok))
          /\ IF ok THEN /\ canary' = TRUE
                        /\ canaryOrigin' = "session"
                        /\ pc' = "confirm_new_watcher"
                        /\ UNCHANGED <<pending, result>>
             ELSE /\ ConfirmationFails(<<"CreateConfirmFile">>)
                  /\ UNCHANGED <<canary, canaryOrigin>>
    /\ UNCHANGED <<opts, profile, exitCode, cmds, inflight, tempDir,
                   watch, events, chan, senderAlive, genOut, waited, lockPath,
                   canaryAtStart, removalSeen, removedUnwatched, hups, invocation, fin, fout>>

\* lines 265-284: the channel and the watcher with its callback
confirm_new_watcher ==
    /\ pc = "confirm_new_watcher"
    /\ chan' = << >>
    /\ \E ok \in BOOLEAN :
          /\ fsLog' = Append(fsLog, FsCall("recommended_watcher", ok))
          /\ IF ok THEN /\ senderAlive' = TRUE
                        /\ pc' = "confirm_watch"
                        /\ UNCHANGED <<pending, result>>
             ELSE /\ ConfirmationFails(<<"Watcher">>)
                  /\ UNCHANGED senderAlive
    /\ UNCHANGED <<opts, profile, exitCode, cmds, inflight, canary, tempDir,
                   watch, events, genOut, waited, lockPath,
                   canaryAtStart, removalSeen, removedUnwatched, canaryOrigin, hups, invocation, fin, fout>>

\* lines 286-288: the watch on the canary, which must exist to be watched;
\* then danger_zone is entered with the confirmation timeout
confirm_watch ==
    /\ pc = "confirm_watch"
    /\ \E ok \in WatchOutcomes(canary) :
          /\ fsLog' = Append(fsLog, FsCall("watch", ok))
          /\ IF ok THEN /\ watch' = "remove"
                        /\ waited' = Some(opts.confirm_timeout)
                        /\ pc' = "danger_zone"
                        /\ UNCHANGED <<pending, result, senderAlive>>
             ELSE /\ ConfirmationFails(<<"Watcher">>)
                  /\ senderAlive' = FALSE
                  /\ UNCHANGED <<watch, waited>>
    /\ UNCHANGED <<opts, profile, exitCode, cmds, inflight, canary, tempDir,
                   events, chan, genOut, lockPath,
                   canaryAtStart, removalSeen, removedUnwatched, canaryOrigin, hups, invocation, fin, fout>>

\* lines 234-239: timeout(.., events.recv()) polls the channel first, so a
\* message that is there wins; an empty channel whose sender is gone yields
\* None; otherwise the timer may elapse
DangerZoneOutcome(ch, alive) ==
    IF ch # << >>
    THEN (IF Head(ch) = "ok" THEN Ok(<< >>) ELSE Err(<<"Watch">>))
    ELSE IF ~alive THEN Err(<<"NoConfirmation">>)
    ELSE Err(<<"TimesUp">>)

\* line 234: the future settles when a message is there, when the channel
\* is closed, or when the timer elapses, and the timer always does
DangerZoneReady_without_timeout(ch, alive) == ch # << >> \/ ~alive
DangerZoneReady(ch, alive) == TRUE

\* lines 288-290 and 344-348: the canary is not touched once the wait is
\* over; the file stays as it is on disk
CanaryLeftBehind_cleaned_up(exists) == FALSE
CanaryLeftBehind(exists) == exists

\* lines 228-240, with the return of its caller: activation_confirmation
\* (lines 288-290, 445-449) or wait (lines 344-348)
danger_zone ==
    /\ pc = "danger_zone"
    /\ DangerZoneReady(chan, senderAlive)
    /\ LET r == DangerZoneOutcome(chan, senderAlive)
       IN  IF r.tag = "ok"
           THEN /\ result' = Ok(<< >>)
                /\ pc' = "main_exit"
                /\ UNCHANGED pending
           ELSE IF opts.subcmd = "activate"
           THEN ConfirmationFails(<<"WaitingError">> \o r.val)
           ELSE /\ result' = Err(<<"Waiting">> \o r.val)
                /\ pc' = "main_exit"
                /\ UNCHANGED pending
    /\ DropWatcher
    /\ canary' = CanaryLeftBehind(canary)
    /\ canaryOrigin' = IF /\ opts.subcmd = "activate"
                          /\ DangerZoneOutcome(chan, senderAlive) = Err(<<"TimesUp">>)
                          /\ canaryOrigin = "session"
                       THEN "timed-out" ELSE canaryOrigin
    /\ UNCHANGED <<opts, profile, exitCode, cmds, inflight, tempDir,
                   genOut, waited, lockPath, canaryAtStart, fsLog, removalSeen, removedUnwatched,
                   hups, invocation, fin, fout>>

---------------------------------------------------------------------------
(* wait: the Wait Client *)

\* lines 305-334: the canary path, the channel, the watcher with its callback
wait_new_watcher ==
    /\ pc = "wait"
    /\ LET lock_path == make_lock_path(opts.temp_path, opts.closure)
       IN  IF lock_path.tag = "panic"
           THEN /\ PanicExit
                /\ UNCHANGED <<lockPath, chan, senderAlive, fsLog>>
           ELSE /\ lockPath' = lock_path
                /\ chan' = << >>
                /\ \E ok \in BOOLEAN :
                      /\ fsLog' = Append(fsLog, FsCall("recommended_watcher", ok))
                      /\ IF ok THEN /\ senderAlive' = TRUE
                                    /\ pc' = "wait_watch"
                                    /\ UNCHANGED result
                         ELSE /\ result' = Err(<<"Watcher">>)
                              /\ pc' = "main_exit"
                              /\ UNCHANGED senderAlive
                /\ UNCHANGED exitCode
    /\ UNCHANGED <<opts, profile, pending, cmds, inflight, canary, tempDir,
                   watch, events, genOut, waited,
                   canaryAtStart, removalSeen, removedUnwatched, canaryOrigin, hups, invocation, fin, fout>>

\* line 336: the watch on the temp directory, which must exist to be watched
wait_watch ==
    /\ pc = "wait_watch"
    /\ \E ok \in WatchOutcomes(tempDir) :
          /\ fsLog' = Append(fsLog, FsCall("watch", ok))
          /\ IF ok THEN /\ watch' = "create"
                        /\ pc' = "wait_check"
                        /\ UNCHANGED <<result, senderAlive>>
             ELSE /\ result' = Err(<<"Watcher">>)
                  /\ pc' = "main_exit"
                  /\ senderAlive' = FALSE
                  /\ UNCHANGED watch
    /\ UNCHANGED <<opts, profile, pending, exitCode, cmds, inflight, canary, tempDir,
                   events, chan, genOut, waited, lockPath,
                   canaryAtStart, removalSeen, removedUnwatched, canaryOrigin, hups, invocation, fin, fout>>

\* line 339: fs::metadata(&lock_path).await.is_ok()
CanaryFound_never(exists) == FALSE
CanaryFound(exists) == exists

\* lines 339-344: the existence check after the watch; unwatch and return,
\* or danger_zone with the activation timeout
wait_check ==
    /\ pc = "wait_check"
    /\ IF CanaryFound(canary)
       THEN /\ \E ok \in BOOLEAN :
                 /\ fsLog' = Append(Append(fsLog, FsCall("metadata", canary)),
                                    FsCall("unwatch", ok))
                 /\ result' = IF ok THEN Ok(<< >>) ELSE Err(<<"Watcher">>)
            /\ pc' = "main_exit"
            /\ DropWatcher
            /\ UNCHANGED waited
       ELSE /\ waited' = Some(UnwrapOr(opts.activation_timeout, DefaultActivationTimeout))
            /\ pc' = "danger_zone"
            /\ fsLog' = Append(fsLog, FsCall("metadata", canary))
            /\ UNCHANGED <<result, watch, events, chan, senderAlive>>
    /\ UNCHANGED <<opts, profile, pending, exitCode, cmds, inflight, canary, tempDir,
                   genOut, lockPath, canaryAtStart, removalSeen, removedUnwatched, canaryOrigin, hups, invocation, fin, fout>>

---------------------------------------------------------------------------
(* The notification context: the watch callbacks *)

ChannelCapacity == 1   \* mpsc::channel(1)

\* Sender::try_send: a full channel drops the message (the error is logged)
try_send_replacing(ch, m) == <<m>>
try_send(ch, m) == IF Len(ch) < ChannelCapacity THEN Append(ch, m) ELSE ch

\* a variant without the guard on the event kind
removal_callback_any_event(e) ==
    IF e = "error" THEN Some("err") ELSE Some("ok")

\* lines 268-279: the callback of activation_confirmation
removal_callback(e) ==
    IF e = "remove" THEN Some("ok")
    ELSE IF e = "error" THEN Some("err")
    ELSE None

\* lines 313-328: the callback of wait; canonicalize(lock_path) succeeds
\* only while the canary exists
creation_callback_ignoring(e, exists) ==
    IF e = "error" THEN Some("err") ELSE None
creation_callback(e, exists) ==
    IF e = "create_canary" THEN (IF exists THEN Some("ok") ELSE None)
    ELSE IF e = "error" THEN Some("err")
    ELSE None

\* lines 268-283 and 313-332: one notification is handed to the callback
watcher_callback ==
    /\ events # << >>
    /\ senderAlive
    /\ events' = Tail(events)
    /\ LET m == IF opts.subcmd = "wait"
                THEN creation_callback(Head(events), canary)
                ELSE removal_callback(Head(events))
       IN  chan' = IF m = None THEN chan ELSE try_send(chan, m[1])
    /\ UNCHANGED <<opts, pc, profile, pending, result, exitCode, cmds, inflight,
                   canary, tempDir, watch, senderAlive, genOut, waited, lockPath,
                   canaryAtStart, fsLog, removalSeen, removedUnwatched, canaryOrigin, hups, invocation, fin, fout>>

\* the watch layer reports an error to the callback
watch_error ==
    /\ watch # "none"
    /\ Len(events) < MaxEvents
    /\ events' = Append(events, "error")
    /\ UNCHANGED <<opts, pc, profile, pending, result, exitCode, cmds, inflight,
                   canary, tempDir, watch, chan, senderAlive, genOut, waited,
                   lockPath, canaryAtStart, fsLog, removalSeen, removedUnwatched, canaryOrigin, hups, invocation, fin, fout>>

\* the event source ends: the callback, and with it the only Sender, is dropped
watcher_dies ==
    /\ watch # "none"
    /\ senderAlive
    /\ senderAlive' = FALSE
    /\ watch' = "none"
    /\ events' = << >>
    /\ UNCHANGED <<opts, pc, profile, pending, result, exitCode, cmds, inflight,
                   canary, tempDir, chan, genOut, waited,
                   lockPath, canaryAtStart, fsLog, removalSeen, removedUnwatched, canaryOrigin, hups, invocation, fin, fout>>

---------------------------------------------------------------------------
(* The host: the confirming party, other files, the hangup signal *)

\* somebody removes the canary; a watch on the file ends with its removal
ext_delete_canary ==
    /\ canary
    /\ canary' = FALSE
    /\ removalSeen' = (removalSeen \/ watch = "remove")
    /\ removedUnwatched' = (removedUnwatched
                             \/ pc \in {"confirm_new_watcher", "confirm_watch"})
    /\ canaryOrigin' = "none"
    /\ IF watch = "remove"
       THEN /\ Len(events) < MaxEvents
            /\ events' = Append(events, "remove")
            /\ watch' = "removed"
       ELSE IF watch = "create"
       THEN /\ Len(events) < MaxEvents
            /\ events' = Append(events, "other")
            /\ UNCHANGED watch
       ELSE UNCHANGED <<events, watch>>
    /\ UNCHANGED <<opts, pc, profile, pending, result, exitCode, cmds, inflight,
                   tempDir, chan, senderAlive, genOut, waited,
                   lockPath, canaryAtStart, fsLog, hups, invocation, fin, fout>>

\* somebody (another session) creates the canary, or truncates the one there
ext_create_canary ==
    /\ tempDir
    /\ canary' = TRUE
    /\ IF watch = "create"
       THEN /\ Len(events) < MaxEvents
            /\ events' = Append(events, IF canary THEN "other" ELSE "create_canary")
       ELSE IF watch = "remove"
       THEN /\ Len(events) < MaxEvents
            /\ events' = Append(events, "other")
       ELSE UNCHANGED events
    /\ UNCHANGED <<opts, pc, profile, pending, result, exitCode, cmds, inflight,
                   tempDir, watch, chan, senderAlive, genOut, waited,
                   lockPath, canaryAtStart, fsLog, removalSeen, removedUnwatched, canaryOrigin, hups, invocation, fin, fout>>

\* another file is created in the watched temp directory
ext_create_other ==
    /\ watch = "create"
    /\ Len(events) < MaxEvents
    /\ events' = Append(events, "create_other")
    /\ UNCHANGED <<opts, pc, profile, pending, result, exitCode, cmds, inflight,
                   canary, tempDir, watch, chan, senderAlive, genOut, waited,
                   lockPath, canaryAtStart, fsLog, removalSeen, removedUnwatched, canaryOrigin, hups, invocation, fin, fout>>

\* line 516: until Signals::new has run, a hangup has its default effect
HangupKills_always(at) == TRUE
HangupKills(at) == at = "main"

\* lines 516-521: a hangup is logged by the listener thread once
\* Signals::new has run; before that it ends the process
sighup ==
    /\ pc # "exited"
    /\ hups < MaxHup
    /\ hups' = hups + 1
    /\ IF HangupKills(pc)
       THEN /\ pc' = "exited"
            /\ exitCode' = "SIGHUP"
       ELSE UNCHANGED <<pc, exitCode>>
    /\ UNCHANGED <<opts, profile, pending, result, cmds, inflight,
                   canary, tempDir, watch, events, chan, senderAlive, genOut, waited,
                   lockPath, canaryAtStart, fsLog, removalSeen, removedUnwatched, canaryOrigin, invocation, fin, fout>>

\* the agent is invoked again on the same host
new_invocation ==
    /\ pc = "exited"
    /\ invocation < MaxInvocations
    /\ invocation' = invocation + 1
    /\ opts' \in AllOpts
    /\ pc' = "main"
    /\ profile' = << >>
    /\ pending' = NoResult
    /\ result' = NoResult
    /\ exitCode' = "running"
    /\ cmds' = << >>
    /\ inflight' = None
    /\ genOut' = None
    /\ waited' = None
    /\ lockPath' = NotCalled
    /\ fsLog' = << >>
    /\ removalSeen' = FALSE
    /\ removedUnwatched' = FALSE
    /\ hups' = 0
    /\ canaryAtStart' = canary
    /\ UNCHANGED <<canary, canaryOrigin, tempDir, watch, events, chan, senderAlive, fin, fout>>

Next ==
    \/ main_setup \/ main_dispatch \/ main_exit
    \/ activate_set_profile \/ set_profile_exit \/ hook_spawn \/ hook_exit
    \/ rollback_spawn \/ rollback_exit \/ listgen_spawn \/ listgen_exit
    \/ delete_spawn \/ delete_exit \/ reactivate_spawn \/ reactivate_exit
    \/ confirm_create_dir \/ confirm_create_file \/ confirm_new_watcher
    \/ confirm_watch \/ danger_zone
    \/ wait_new_watcher \/ wait_watch \/ wait_check
    \/ watcher_callback \/ watch_error \/ watcher_dies
    \/ ext_delete_canary \/ ext_create_canary \/ ext_create_other
    \/ sighup \/ new_invocation

Spec == Init /\ [][Next]_vars

\* the steps of the agent's main task: the runtime keeps polling it, every
\* child process ends, every file system call returns, and the timer of
\* danger_zone elapses
AgentStep ==
    \/ main_setup \/ main_dispatch \/ main_exit
    \/ activate_set_profile \/ set_profile_exit \/ hook_spawn \/ hook_exit
    \/ rollback_spawn \/ rollback_exit \/ listgen_spawn \/ listgen_exit
    \/ delete_spawn \/ delete_exit \/ reactivate_spawn \/ reactivate_exit
    \/ confirm_create_dir \/ confirm_create_file \/ confirm_new_watcher
    \/ confirm_watch \/ danger_zone
    \/ wait_new_watcher \/ wait_watch \/ wait_check

\* one invocation with the host around it
NextLive ==
    \/ AgentStep
    \/ watcher_callback \/ watch_error \/ watcher_dies
    \/ ext_delete_canary \/ ext_create_canary \/ ext_create_other
    \/ sighup

SpecLive == Init /\ [][NextLive]_vars /\ WF_vars(AgentStep)

---------------------------------------------------------------------------
(* The pure functions on their own: the canary path *)

\* no process is running
NoProcess ==
    /\ opts = CHOOSE o \in RevokeOpts : TRUE
    /\ pc = "exited"
    /\ profile = << >>
    /\ pending = NoResult
    /\ result = NoResult
    /\ exitCode = "running"
    /\ cmds = << >>
    /\ inflight = None
    /\ canary = FALSE
    /\ tempDir = FALSE
    /\ watch = "none"
    /\ events = << >>
    /\ chan = << >>
    /\ senderAlive = FALSE
    /\ genOut = None
    /\ waited = None
    /\ lockPath = NotCalled
    /\ canaryAtStart = FALSE
    /\ canaryOrigin = "none"
    /\ fsLog = << >>
    /\ removalSeen = FALSE
    /\ removedUnwatched = FALSE
    /\ hups = 0
    /\ invocation = 0

\* --temp-path values (clap's PathBuf parser rejects the empty one)
TempPaths == {TempPath, TempPath \o Slash, <<"t">>}
TailAlphabet == {"a", "b", "-"}
\* closures in the store, and some that are not store paths
LockClosures ==
    {StorePrefix \o t : t \in SeqsUpTo(TailAlphabet, MaxTail)}
        \cup {ShortClosure, <<"a","-","b">>, << >>}

InitLock ==
    /\ NoProcess
    /\ fin \in [temp_path : TempPaths, closure : LockClosures]
    /\ fout = NotCalled

call_make_lock_path ==
    /\ fout' = make_lock_path(fin.temp_path, fin.closure)
    /\ UNCHANGED <<fin, opts, pc, profile, pending, result, exitCode, cmds, inflight,
                   canary, tempDir, watch, events, chan, senderAlive, genOut,
                   waited, lockPath, canaryAtStart, fsLog, removalSeen, removedUnwatched, canaryOrigin, hups, invocation>>

NextLock == call_make_lock_path

SpecLock == InitLock /\ [][NextLock]_vars

\* Path equality: the same root and the same components
RECURSIVE Components(_)
Components(p) ==
    IF p = << >> THEN << >>
    ELSE LET k == FindChar(p, "/")
         IN  IF k = None THEN <<p>>
             ELSE LET head == SubSeq(p, 1, k[1])
                      rest == SubSeq(p, k[1] + 2, Len(p))
                  IN  (IF head = << >> THEN << >> ELSE <<head>>) \o Components(rest)
IsAbsolute(p) == p # << >> /\ p[1] = "/"
SamePath(a, b) == IsAbsolute(a) = IsAbsolute(b) /\ Components(a) = Components(b)

HasStorePrefix(c) ==
    Len(c) >= Len(StorePrefix) /\ SubSeq(c, 1, Len(StorePrefix)) = StorePrefix

\* the hashes h with closure = prefix . h . "-" . rest and no "-" in h
HashesOf(c) ==
    { SubSeq(c, Len(StorePrefix) + 1, Len(StorePrefix) + k) :
        k \in { k \in 0..(Len(c) - Len(StorePrefix) - 1) :
                  /\ c[Len(StorePrefix) + k + 1] = "-"
                  /\ \A j \in 1..k : c[Len(StorePrefix) + j] # "-" } }

\* C8: for a closure that starts with the store prefix and has a "-" after
\* it, every call of make_lock_path yields <temp_path>/deploy-rs-canary-<hash>
\* with hash the text between the prefix and the first "-".
C8_CanaryPath ==
    (/\ fout # NotCalled
     /\ HasStorePrefix(fin.closure)
     /\ HashesOf(fin.closure) # {})
    => /\ fout.tag = "ok"
       /\ \A h \in HashesOf(fin.closure) :
             SamePath(fout.val, fin.temp_path \o Slash \o CanaryPrefix \o h)

C8_Witness ==
    /\ fout.tag = "ok"
    /\ fin.closure = StorePrefix \o <<"a","b","-">>
    /\ fin.temp_path = TempPath
    /\ fout.val = TempPath \o Slash \o CanaryPrefix \o <<"a","b">>

---------------------------------------------------------------------------
(* The pure functions on their own: the profile path *)

OtherUser == <<"a","l">>
OtherName == <<"f">>
StateDir == <<"/","s">>
XdgStateHome == <<"/","x">>
HomeDir == <<"/","h">>

Envs ==
    [NIX_STATE_DIR : {None, Some(StateDir)},
     XDG_STATE_HOME : {None, Some(XdgStateHome)},
     HOME : {None, Some(HomeDir)},
     dirs : SUBSET {DefaultNixStateDir \o ProfilesPerUser \o OtherUser,
                    StateDir \o ProfilesPerUser \o OtherUser}]

InitProfile ==
    /\ NoProcess
    /\ fin \in [profile_path : {None, Some(ExplicitProfile)},
                profile_user : {None, Some(RootUser), Some(OtherUser)},
                profile_name : {None, Some(SystemName), Some(OtherName)},
                env : Envs]
    /\ fout = NotCalled

call_get_profile_path ==
    /\ fout' = get_profile_path(fin.profile_path, fin.profile_user,
                                fin.profile_name, fin.env)
    /\ UNCHANGED <<fin, opts, pc, profile, pending, result, exitCode, cmds, inflight,
                   canary, tempDir, watch, events, chan, senderAlive, genOut,
                   waited, lockPath, canaryAtStart, fsLog, removalSeen, removedUnwatched, canaryOrigin, hups, invocation>>

NextProfile == call_get_profile_path

SpecProfile == InitProfile /\ [][NextProfile]_vars

\* C9: an explicit path is returned verbatim; root/system is
\* <state_dir>/profiles/system, root/<name> is
\* <state_dir>/profiles/per-user/root/<name>; another user gets
\* <state_dir>/profiles/per-user/<user>/<name> when that per-user directory
\* exists and <state>/nix/profiles/<name> otherwise, <state> being
\* XDG_STATE_HOME or else <home>/.local/state.
C9_ProfilePath ==
    fout # NotCalled =>
      LET state_dir == IF fin.env.NIX_STATE_DIR = None THEN DefaultNixStateDir
                       ELSE fin.env.NIX_STATE_DIR[1]
          legacy == state_dir \o <<"/">> \o <<"p","r","o","f","i","l","e","s">>
                      \o <<"/">> \o <<"p","e","r","-","u","s","e","r">> \o <<"/">>
      IN
      /\ (fin.profile_path # None /\ fin.profile_user = None /\ fin.profile_name = None)
            => fout = Ok(fin.profile_path[1])
      /\ (fin.profile_path = None /\ fin.profile_user # None /\ fin.profile_name # None)
            => LET user == fin.profile_user[1]
                   name == fin.profile_name[1]
               IN  /\ (user = RootUser /\ name = SystemName)
                         => fout = Ok(state_dir \o ProfilesSystem)
                   /\ (user = RootUser /\ name # SystemName)
                         => fout = Ok(legacy \o RootUser \o Slash \o name)
                   /\ (user # RootUser /\ (legacy \o user) \in fin.env.dirs)
                         => fout = Ok(legacy \o user \o Slash \o name)
                   /\ (user # RootUser /\ (legacy \o user) \notin fin.env.dirs
                         /\ fin.env.XDG_STATE_HOME # None)
                         => fout = Ok(fin.env.XDG_STATE_HOME[1] \o NixProfiles \o name)
                   /\ (user # RootUser /\ (legacy \o user) \notin fin.env.dirs
                         /\ fin.env.XDG_STATE_HOME = None /\ fin.env.HOME # None)
                         => fout = Ok(fin.env.HOME[1] \o LocalState \o NixProfiles \o name)

C9_Witness ==
    /\ fout = Ok(DefaultNixStateDir \o ProfilesSystem)
    /\ fin.profile_user = Some(RootUser)
    /\ fin.profile_name = Some(SystemName)
    /\ fin.profile_path = None

---------------------------------------------------------------------------
(* What the claims speak of *)

Names(log) == [i \in 1..Len(log) |-> log[i].name]
Invoked(name) == \E i \in 1..Len(cmds) : cmds[i].name = name
StatusOf(name) == {cmds[i].status : i \in {j \in 1..Len(cmds) : cmds[j].name = name}}

RollbackSteps == <<"rollback", "list-generations", "delete-generations", "re-activate">>
IsRollbackStep(c) == \E i \in 1..Len(RollbackSteps) : c.name = RollbackSteps[i]
RollbackLog == SelectSeq(cmds, IsRollbackStep)
RollbackInvoked == Invoked("rollback")

Did(op, ok) == \E i \in 1..Len(fsLog) : fsLog[i] = FsCall(op, ok)
CanaryCreated == Did("File::create", TRUE)

Returned == pc \in {"main_exit", "exited"} /\ result.tag \in {"ok", "err"}

MagicSession ==
    /\ opts.subcmd = "activate"
    /\ opts.magic_rollback /\ ~opts.dry_activate /\ ~opts.boot

HookExitedBadly ==
    StatusOf("activate-hook") \cap {"1", "signal"} # {}

\* C1: in a non-dry-run, non-boot activate with magic rollback, after
\* set-profile and the hook have succeeded (the confirmation step has been
\* entered), a confirmation step that failed is followed by the Rollback
\* Executor, whatever auto-rollback is: once the step is over, either
\* activate holds Ok or deactivate is being called or has run its rollback
\* command.
C1_ConfirmationFailureRollsBack ==
    (/\ MagicSession
     /\ lockPath # NotCalled
     /\ pc \notin {"confirm_create_file", "confirm_new_watcher", "confirm_watch",
                   "danger_zone"})
    => \/ result.tag = "ok"
       \/ pc = "rollback_spawn"
       \/ RollbackInvoked

C1_Witness ==
    /\ MagicSession
    /\ ~opts.auto_rollback
    /\ pending = Err(<<"ActivationConfirmation", "WaitingError", "TimesUp">>)
    /\ StatusOf("set-profile") = {"0"}
    /\ StatusOf("activate-hook") = {"0"}
    /\ RollbackInvoked

\* C2: a non-dry-run, non-boot activate with magic rollback ends with exit
\* code 0 only if the canary was removed while the removal watch was on and
\* the wait was entered; when it ends otherwise, the rollback command was
\* invoked or the session never created the canary.
C2_ConfirmedOnlyByRemoval ==
    (MagicSession /\ pc = "exited")
    => /\ exitCode = "0" => (removalSeen /\ waited # None /\ CanaryCreated)
       /\ exitCode # "0" => (RollbackInvoked \/ ~CanaryCreated)

C2_Witness ==
    /\ MagicSession
    /\ pc = "exited"
    /\ exitCode = "0"
    /\ removalSeen
    /\ ~canary

C4_DryRunTouchesNothing ==
    (opts.subcmd = "activate" /\ opts.dry_activate)
    => /\ \A i \in 1..Len(cmds) : cmds[i].name = "activate-hook"
       /\ fsLog = << >>
       /\ lockPath = NotCalled
       /\ waited = None
       /\ pc \notin {"danger_zone", "rollback_spawn"}

C4_Witness ==
    /\ opts.subcmd = "activate" /\ opts.dry_activate
    /\ opts.auto_rollback /\ opts.magic_rollback /\ ~opts.boot
    /\ StatusOf("activate-hook") = {"1"}
    /\ pc = "exited"

\* C5: with boot set, activate never creates the canary and never enters the
\* confirmation wait, even with magic rollback; once the hook has exited 0
\* activate returns Ok, and the process exits 0.
C5_BootNeverConfirms ==
    (opts.subcmd = "activate" /\ opts.boot)
    => /\ ~CanaryCreated
       /\ fsLog = << >>
       /\ waited = None
       /\ pc # "danger_zone"
       /\ StatusOf("activate-hook") = {"0"}
            => (/\ pc \in {"main_exit", "exited"}
                /\ result = Ok(<< >>)
                /\ pc = "exited" => exitCode = "0")

C5_Witness ==
    /\ opts.subcmd = "activate" /\ opts.boot /\ opts.magic_rollback
    /\ ~opts.dry_activate
    /\ StatusOf("set-profile") = {"0"}
    /\ StatusOf("activate-hook") = {"0"}
    /\ pc = "exited"
    /\ exitCode = "0"

IsPrefix(a, b) == Len(a) <= Len(b) /\ SubSeq(b, 1, Len(a)) = a

\* C6: the rollback commands are invoked in the order rollback,
\* list-generations, delete-generations, re-activate, each at most once,
\* and none is invoked after one that failed to spawn or did not exit 0.
C6_RollbackStopsAtFirstFailure ==
    /\ IsPrefix(Names(RollbackLog), RollbackSteps)
    /\ \A i \in 1..(Len(RollbackLog) - 1) : RollbackLog[i].status = "0"
    /\ \A i \in 1..Len(cmds) :
          (IsRollbackStep(cmds[i]) /\ cmds[i].status \notin {"0", "running"})
             => i = Len(cmds)

C6_Witness ==
    /\ Names(RollbackLog) = <<"rollback", "list-generations">>
    /\ RollbackLog[2].status = "1"
    /\ pc = "exited"

\* C7 as stated: a wait that found the canary there when it started and
\* established its watch returns Ok without having entered the blocking wait.
C7_Original ==
    (/\ opts.subcmd = "wait"
     /\ canaryAtStart
     /\ Did("watch", TRUE)
     /\ pc \in {"main_exit", "exited"})
    => (result = Ok(<< >>) /\ waited = None)

\* C7, amended: a wait whose existence check, made after the watch was
\* established, finds the canary returns at once without entering the
\* blocking wait: Ok when cancelling the watch succeeds, the watcher error
\* when it fails.
C7_ExistingCanaryReturnsAtOnce ==
    (opts.subcmd = "wait" /\ Did("metadata", TRUE))
    => /\ Did("watch", TRUE)
       /\ waited = None
       /\ pc \in {"main_exit", "exited"}
       /\ Did("unwatch", TRUE) => result = Ok(<< >>)
       /\ Did("unwatch", FALSE) => result = Err(<<"Watcher">>)
       /\ Did("unwatch", TRUE) \/ Did("unwatch", FALSE)

C7_Witness ==
    /\ opts.subcmd = "wait"
    /\ canaryAtStart
    /\ Did("metadata", TRUE)
    /\ Did("unwatch", TRUE)
    /\ pc = "exited"
    /\ exitCode = "0"

\* C10: a process that ran to its end exits with 0 when its operation
\* returned Ok and with 1 in every other case.
C10_ExitCodes ==
    (pc = "exited" /\ exitCode # "SIGHUP")
    => /\ result.tag = "ok" => exitCode = "0"
       /\ result.tag # "ok" => exitCode = "1"

\* C11: the agent never deletes the canary: every step in which the canary
\* goes from present to absent is a step of somebody else on the host, one
\* that leaves the agent's position, results, commands and file system
\* calls as they were; this covers the end of the confirmation wait and the
\* whole of the rollback that follows it.
C11_AgentNeverDeletesCanary ==
    [][(canary /\ ~canary')
         => (/\ pc' = pc /\ result' = result /\ pending' = pending
             /\ cmds' = cmds /\ fsLog' = fsLog /\ waited' = waited
             /\ invocation' = invocation)]_vars

\* a session whose wait timed out and whose rollback ran to its end, with
\* the canary it created still on disk
C11_Witness ==
    /\ MagicSession
    /\ CanaryCreated
    /\ waited # None
    /\ result = Err(<<"ActivationConfirmation", "WaitingError", "TimesUp">>)
    /\ Names(RollbackLog) = RollbackSteps
    /\ pc = "exited"
    /\ canary

DryRun == opts.subcmd = "activate" /\ opts.dry_activate
HookFile == <<"d","e","p","l","o","y","-","r","s","-","a","c","t","i","v","a","t","e">>
HookOf(root) == root \o <<"/">> \o HookFile

\* C12 as stated: a dry-run activate that has run the hook returns Ok and
\* exits 0, whatever became of the hook: a nonzero exit, a signal, or a
\* failure to spawn.
C12_Original ==
    (DryRun /\ Invoked("activate-hook") /\ pc \in {"main_exit", "exited"})
    => /\ result = Ok(<< >>)
       /\ pc = "exited" => exitCode = "0"

\* C12, amended: a dry-run activate runs one command, the hook of the
\* closure; when the hook was spawned, activate returns Ok and the process
\* exits 0 whatever the hook's exit status; when the hook could not be
\* spawned, activate returns the run-activate error and the process exits 1.
C12_DryRunIgnoresHookStatus ==
    (DryRun /\ Invoked("activate-hook") /\ pc \in {"main_exit", "exited"})
    => /\ Len(cmds) = 1
       /\ cmds[1].program = HookOf(opts.closure)
       /\ cmds[1].status \in {"0", "1", "signal", "spawn-failed"}
       /\ cmds[1].status # "spawn-failed"
            => (result = Ok(<< >>) /\ (pc = "exited" => exitCode = "0"))
       /\ cmds[1].status = "spawn-failed"
            => (result = Err(<<"RunActivate">>) /\ (pc = "exited" => exitCode = "1"))

C12_Witness ==
    /\ DryRun
    /\ opts.auto_rollback
    /\ StatusOf("activate-hook") = {"signal"}
    /\ pc = "exited"
    /\ exitCode = "0"

SetProfileExitedBadly ==
    StatusOf("set-profile") \cap {"1", "signal"} # {}
RollbackRanWell ==
    /\ Names(RollbackLog) = RollbackSteps
    /\ \A i \in 1..Len(RollbackLog) : RollbackLog[i].status = "0"

EnvOf(p, d, b) == [PROFILE |-> p, DRY_ACTIVATE |-> d, BOOT |-> b]
OneOrZero(b) == IF b THEN <<"1">> ELSE <<"0">>

\* C14: every activation hook in the command log was run as
\* <root>/deploy-rs-activate with PROFILE = <root>, DRY_ACTIVATE = "1" or
\* "0" as dry-activate is set or not, BOOT = "1" or "0" as boot is set or
\* not, where <root> is the closure in a dry run and the resolved profile
\* path otherwise; every re-activation was run as
\* <profile_path>/deploy-rs-activate with PROFILE = <profile_path> and
\* neither DRY_ACTIVATE nor BOOT set.
C14_HookEnvironment ==
    \A i \in 1..Len(cmds) :
       /\ cmds[i].name = "activate-hook"
            => LET root == IF opts.dry_activate THEN opts.closure ELSE profile
               IN  /\ cmds[i].program = HookOf(root)
                   /\ cmds[i].env = EnvOf(<<root>>, <<OneOrZero(opts.dry_activate)>>,
                                          <<OneOrZero(opts.boot)>>)
       /\ cmds[i].name = "re-activate"
            => /\ cmds[i].program = HookOf(profile)
               /\ cmds[i].env = EnvOf(<<profile>>, << >>, << >>)

C14_Witness ==
    /\ opts.subcmd = "activate" /\ ~opts.dry_activate /\ opts.boot
    /\ profile = ExplicitProfile
    /\ Invoked("activate-hook")
    /\ Invoked("re-activate")
    /\ pc = "exited"

\* the wait of danger_zone has been entered and is over
WaitOver == waited # None /\ pc # "danger_zone"

\* what the wait came to: activate keeps its error in pending until the
\* rollback is over, wait returns it as it is
WaitOutcomeOf(pend, res) ==
    IF opts.subcmd = "activate"
    THEN (IF pend = NoResult THEN "confirmed" ELSE pend.val[Len(pend.val)])
    ELSE (IF res.tag = "ok" THEN "confirmed" ELSE res.val[Len(res.val)])
WaitOutcome == WaitOutcomeOf(pending, result)

\* what came first: the message at the head of the channel, the end of the
\* event source, or else the timer
FirstArrival ==
    IF chan # << >> THEN (IF Head(chan) = "ok" THEN "confirmed" ELSE "Watch")
    ELSE IF ~senderAlive THEN "NoConfirmation"
    ELSE "TimesUp"

\* C15: a wait that is over has come to one of four outcomes: confirmed,
\* the watch error, no-confirmation, times-up; the outcome is the one of
\* what came first (the first message sent on the channel, the end of the
\* event source with nothing sent, else the timer); a message already on
\* the channel is not displaced by a later one; and once the wait is over
\* its outcome does not change for the rest of the invocation.
C15_FirstArrivalWins ==
    /\ [](WaitOver => WaitOutcome \in {"confirmed", "Watch", "NoConfirmation", "TimesUp"})
    /\ [][(pc = "danger_zone" /\ pc' # "danger_zone")
            => WaitOutcomeOf(pending', result') = FirstArrival]_vars
    /\ [][(chan # << >> /\ chan' # << >>) => Head(chan') = Head(chan)]_vars
    /\ [][(WaitOver /\ invocation' = invocation)
            => WaitOutcomeOf(pending', result') = WaitOutcome]_vars

\* the watch error came first and the removal after it
C15_Witness ==
    /\ MagicSession
    /\ pending = Err(<<"ActivationConfirmation", "WaitingError", "Watch">>)
    /\ removalSeen
    /\ ~canary
    /\ pc = "exited"

ConfirmationOver ==
    pc \notin {"confirm", "confirm_create_file", "confirm_new_watcher",
               "confirm_watch", "danger_zone"}

Queued(e) == \E i \in 1..Len(events) : events[i] = e

\* C17 as stated: a wait that established its watch returns Ok when it
\* finds the canary at its existence check, and when its timed wait ends
\* with the canary in place and no notification of its creation still on
\* its way.
C17_Original ==
    /\ []((opts.subcmd = "wait" /\ Did("metadata", TRUE) /\ Returned)
            => result = Ok(<< >>))
    /\ [][(/\ opts.subcmd = "wait" /\ pc = "danger_zone" /\ pc' = "main_exit"
           /\ canary /\ ~Queued("create_canary"))
            => result' = Ok(<< >>)]_vars

\* C17, amended: the creation of the canary is never missed, whatever the
\* interleaving: a wait in its timed wait with the canary in place has a
\* message on its channel or the creation's notification on its way (or
\* its event source has ended); the timer ends the wait only when the
\* canary is absent or the notification still on its way; the wait returns
\* Ok when the creation's message is the first on the channel, and when
\* the check finds the canary and cancelling the watch succeeds.  It
\* returns the watch error when that came first, and the watcher error
\* when cancelling the watch fails.
C17_CreationNeverMissed ==
    /\ []((opts.subcmd = "wait" /\ pc = "danger_zone" /\ canary /\ watch = "create")
            => (chan # << >> \/ Queued("create_canary")))
    /\ []((opts.subcmd = "wait" /\ Did("metadata", TRUE) /\ Returned)
            => (/\ Did("unwatch", TRUE) => result = Ok(<< >>)
                /\ result # Ok(<< >>) => result = Err(<<"Watcher">>)))
    /\ [][(/\ opts.subcmd = "wait" /\ pc = "danger_zone" /\ pc' = "main_exit"
           /\ canary /\ ~Queued("create_canary"))
            => (/\ result' \in {Ok(<< >>), Err(<<"Waiting", "Watch">>),
                                Err(<<"Waiting", "NoConfirmation">>)}
                /\ chan = <<"ok">> => result' = Ok(<< >>))]_vars

\* the canary was not there at the check, was created during the timed
\* wait, and the wait returned Ok
C17_Witness ==
    /\ opts.subcmd = "wait"
    /\ ~canaryAtStart
    /\ Did("metadata", FALSE)
    /\ waited = Some(DefaultActivationTimeout)
    /\ canary
    /\ result = Ok(<< >>)
    /\ pc = "exited"

Running(log) == {i \in 1..Len(log) : log[i].status = "running"}
CommandOrder ==
    <<"set-profile", "activate-hook", "rollback", "list-generations",
      "delete-generations", "re-activate">>
PositionIn(order, name) == CHOOSE k \in 1..Len(order) : order[k] = name

\* C18: the commands of an invocation are issued in the order set-profile,
\* activation hook, rollback, list-generations, delete-generations,
\* re-activate; at most one command is running at any time, and it is the
\* one issued last; a command is issued only when every earlier one has
\* ended and the agent has moved on from its exit status; no command is
\* running while the confirmation step, from the canary's path to the end
\* of the timed wait, is in progress.
C18_OneCommandAtATime ==
    /\ [](/\ \A i \in 1..Len(cmds) : \E k \in 1..Len(CommandOrder) :
                cmds[i].name = CommandOrder[k]
          /\ \A i, j \in 1..Len(cmds) :
                i < j => PositionIn(CommandOrder, cmds[i].name)
                           < PositionIn(CommandOrder, cmds[j].name)
          /\ Running(cmds) \subseteq {Len(cmds)}
          /\ (inflight # None) <=> (Running(cmds) # {})
          /\ ~ConfirmationOver => (Running(cmds) = {} /\ inflight = None)
          /\ opts.subcmd = "wait" => cmds = << >>)
    /\ [][Len(cmds') > Len(cmds)
            => (Running(cmds) = {} /\ inflight = None
                /\ SubSeq(cmds', 1, Len(cmds)) = cmds)]_vars

\* all six commands, with the confirmation wait between the hook and the
\* rollback
C18_Witness ==
    /\ Names(cmds) = CommandOrder
    /\ waited # None
    /\ Running(cmds) = {}
    /\ pc = "exited"

\* C19: in one invocation every command is invoked at most once
\* (set-profile, the hook, and each of the four rollback commands), so the
\* Rollback Executor is entered at most once; a rollback command that
\* failed is the last command of the invocation.
C19_NothingRetried ==
    /\ \A i, j \in 1..Len(cmds) : cmds[i].name = cmds[j].name => i = j
    /\ Len(cmds) <= Len(CommandOrder)
    /\ \A i \in 1..Len(cmds) :
          (IsRollbackStep(cmds[i]) /\ cmds[i].status \in {"1", "signal", "spawn-failed"})
             => (i = Len(cmds) /\ pc \in {"main_exit", "exited"})

\* the rollback that followed a failed hook failed itself, and was not
\* tried again
C19_Witness ==
    /\ opts.subcmd = "activate" /\ opts.auto_rollback
    /\ HookExitedBadly
    /\ Names(RollbackLog) = <<"rollback">>
    /\ RollbackLog[1].status = "1"
    /\ result = Err(<<"Deactivate", "RollbackExit", "1">>)
    /\ pc = "exited"

\* C20: the timed wait is entered with the timeout given on the command
\* line, 240 for a wait without one; and, the agent's steps being taken
\* when they can be (children end, the timer elapses), an invocation of
\* activate, wait or revoke ends, whatever the host does or does not do.
C20_EveryInvocationEnds ==
    /\ [](pc = "danger_zone"
            => waited = Some(IF opts.subcmd = "wait"
                             THEN (IF opts.activation_timeout = None
                                   THEN 240 ELSE opts.activation_timeout[1])
                             ELSE opts.confirm_timeout))
    /\ <>[](pc = "exited" /\ exitCode # "running")

\* a wait nobody answered ended on the default timeout
C20_Witness ==
    /\ opts.subcmd = "wait"
    /\ opts.activation_timeout = None
    /\ waited = Some(240)
    /\ result = Err(<<"Waiting", "TimesUp">>)
    /\ ~canary
    /\ pc = "exited"

OthersUnchanged ==
    UNCHANGED <<opts, pc, profile, pending, result, exitCode, cmds, inflight,
                canary, tempDir, watch, events, chan, senderAlive, genOut,
                waited, lockPath, canaryAtStart, fsLog, removalSeen,
                removedUnwatched, canaryOrigin, invocation>>

C22_NoWindowWithoutMagicRollback ==
    (/\ opts.subcmd = "activate" /\ ~opts.magic_rollback /\ ~opts.dry_activate
     /\ StatusOf("set-profile") = {"0"}
     /\ StatusOf("activate-hook") = {"0"})
    => /\ pc \in {"main_exit", "exited"}
       /\ result = Ok(<< >>)
       /\ pc = "exited" => exitCode = "0"
       /\ Names(cmds) = <<"set-profile", "activate-hook">>
       /\ fsLog = << >>
       /\ lockPath = NotCalled
       /\ waited = None
       /\ ~CanaryCreated

C22_Witness ==
    /\ opts.subcmd = "activate" /\ ~opts.magic_rollback /\ ~opts.dry_activate
    /\ opts.auto_rollback /\ ~opts.boot
    /\ StatusOf("set-profile") = {"0"}
    /\ StatusOf("activate-hook") = {"0"}
    /\ pc = "exited"
    /\ exitCode = "0"

Failures == {"1", "signal", "spawn-failed"}
FirstStageFailed ==
    \/ StatusOf("set-profile") \cap Failures # {}
    \/ StatusOf("activate-hook") \cap Failures # {}
FirstStageError ==
    IF StatusOf("set-profile") = {"spawn-failed"} THEN <<"SetProfile">>
    ELSE IF StatusOf("set-profile") \cap Failures # {}
    THEN <<"SetProfileExit", CHOOSE c \in StatusOf("set-profile") : TRUE>>
    ELSE IF StatusOf("activate-hook") = {"spawn-failed"} THEN <<"RunActivate">>
    ELSE <<"RunActivateExit", CHOOSE c \in StatusOf("activate-hook") : TRUE>>

\* C23 as stated: in a non-dry-run activate whose set-profile or hook
\* failed (to spawn, or by its exit status), the rollback command is
\* invoked by the time activate returns exactly when auto-rollback is set,
\* and without auto-rollback the error returned is that failure.
C23_Original ==
    (opts.subcmd = "activate" /\ ~opts.dry_activate /\ FirstStageFailed /\ Returned)
    => /\ RollbackInvoked <=> opts.auto_rollback
       /\ ~opts.auto_rollback => result = Err(FirstStageError)

\* C23, amended: in a non-dry-run activate whose set-profile or hook
\* failed, without auto-rollback no rollback command is ever invoked and
\* the error returned is that failure; with auto-rollback the rollback
\* command has been invoked when activate returns, except after a
\* set-profile that could not be spawned, which is returned as it is with
\* no rollback.
C23_RollbackOnlyWithAutoRollback ==
    (opts.subcmd = "activate" /\ ~opts.dry_activate /\ FirstStageFailed)
    => /\ ~opts.auto_rollback => (RollbackLog = << >> /\ pc # "rollback_spawn")
       /\ StatusOf("set-profile") = {"spawn-failed"}
            => (RollbackLog = << >> /\ pc # "rollback_spawn")
       /\ Returned =>
            /\ RollbackInvoked
                 <=> (opts.auto_rollback /\ StatusOf("set-profile") # {"spawn-failed"})
            /\ ~RollbackInvoked => result = Err(FirstStageError)

C23_Witness ==
    /\ opts.subcmd = "activate" /\ ~opts.dry_activate /\ ~opts.auto_rollback
    /\ opts.magic_rollback
    /\ StatusOf("set-profile") = {"0"}
    /\ StatusOf("activate-hook") = {"1"}
    /\ result = Err(<<"RunActivateExit", "1">>)
    /\ RollbackLog = << >>
    /\ pc = "exited"
    /\ exitCode = "1"

\* C24: when list-generations exited 0 and printed nothing, the Rollback
\* Executor has returned an error to its caller, the process exits with
\* code 1, and neither delete-generations nor re-activate was invoked.
C24_EmptyListIsAnError ==
    (StatusOf("list-generations") = {"0"} /\ genOut = Some(<< >>))
    => /\ pc \in {"main_exit", "exited"}
       /\ result.tag = "err"
       /\ pc = "exited" => exitCode = "1"
       /\ ~Invoked("delete-generations")
       /\ ~Invoked("re-activate")

Blank(c) == c = " " \/ c = "\n"

\* id is the first whitespace-delimited token of the last line of out: out
\* without one final line break ends with a line that is blanks, then id,
\* then nothing or a blank and anything
IsFirstTokenOfLastLine(id, out) ==
    LET text == IF out # << >> /\ out[Len(out)] = "\n"
                THEN SubSeq(out, 1, Len(out) - 1) ELSE out
    IN  \E from \in 1..(Len(text) + 1) : \E a \in from..Len(text) : \E b \in a..Len(text) :
           /\ from = 1 \/ text[from - 1] = "\n"
           /\ \A i \in from..Len(text) : text[i] # "\n"
           /\ \A i \in from..(a - 1) : Blank(text[i])
           /\ \A i \in a..b : ~Blank(text[i])
           /\ b = Len(text) \/ Blank(text[b + 1])
           /\ id = SubSeq(text, a, b)

RollbackFailed ==
    /\ RollbackInvoked
    /\ pc = "exited"
    /\ ~RollbackRanWell

\* C26: when the Rollback Executor was invoked by activate and failed at
\* one of its steps, activate has returned an error that is the
\* executor's, wrapped as a de-activation error, and not the failure that
\* led to the rollback.
C26_RollbackErrorReplacesOriginal ==
    (opts.subcmd = "activate" /\ RollbackFailed)
    => /\ result.tag = "err"
       /\ result.val[1] = "Deactivate"
       /\ Len(result.val) >= 2
       /\ exitCode = "1"

\* C27: an activate whose set-profile could not be spawned has returned
\* the set-profile spawn error at once: set-profile is the only command in
\* its log, no hook and no rollback command was run and none is about to
\* be, no canary was made, and the process exits 1, with auto-rollback set
\* or not.
C27_SetProfileSpawnFailure ==
    (opts.subcmd = "activate" /\ StatusOf("set-profile") = {"spawn-failed"})
    => /\ pc \in {"main_exit", "exited"}
       /\ result = Err(<<"SetProfile">>)
       /\ pending = NoResult
       /\ Names(cmds) = <<"set-profile">>
       /\ fsLog = << >>
       /\ waited = None
       /\ pc = "exited" => exitCode = "1"

C27_Witness ==
    /\ opts.subcmd = "activate" /\ opts.auto_rollback /\ opts.magic_rollback
    /\ StatusOf("set-profile") = {"spawn-failed"}
    /\ result = Err(<<"SetProfile">>)
    /\ pc = "exited"
    /\ exitCode = "1"

\* the canary on disk is the one a session created, whose window ended in
\* times-up, and nobody has removed it since
ResidualCanary == canary /\ canaryOrigin = "timed-out"

\* the residual canary was there at the start of this wait and at its check
FoundResidual ==
    /\ opts.subcmd = "wait"
    /\ canaryAtStart
    /\ canaryOrigin = "timed-out"
    /\ Did("metadata", TRUE)

\* a session at its File::create with the canary already there may go on
\* to its watcher: the creation is not refused
OverwritingSucceeds ==
    (pc = "confirm_create_file" /\ tempDir /\ canary)
    => ENABLED (confirm_create_file /\ pc' = "confirm_new_watcher" /\ canary')

\* C28 as stated: a wait that finds at its check the canary left by a
\* session that timed out returns Ok without waiting, no session being in
\* its window; and a session's creation of the canary over one that is
\* there succeeds.
C28_Original ==
    /\ FoundResidual => (/\ pc \in {"main_exit", "exited"}
                         /\ waited = None
                         /\ result = Ok(<< >>))
    /\ OverwritingSucceeds

\* C28, amended: a wait that finds at its check the canary left by a
\* session that timed out returns at once without waiting, no session
\* being in its window: Ok when cancelling the watch succeeds, the watcher
\* error when it fails; and a session's creation of the canary over one
\* that is there succeeds.
C28_ResidualCanarySatisfiesWait ==
    /\ FoundResidual => (/\ pc \in {"main_exit", "exited"}
                         /\ waited = None
                         /\ cmds = << >>
                         /\ ~CanaryCreated
                         /\ Did("unwatch", TRUE) => result = Ok(<< >>)
                         /\ Did("unwatch", FALSE) => result = Err(<<"Watcher">>)
                         /\ Did("unwatch", TRUE) \/ Did("unwatch", FALSE))
    /\ OverwritingSucceeds

C28_Witness ==
    /\ FoundResidual
    /\ ResidualCanary
    /\ invocation > 1
    /\ result = Ok(<< >>)
    /\ waited = None
    /\ pc = "exited"
    /\ exitCode = "0"

===========================================================================
